---- MODULE Spec2Model ----
(***************************************************************************)
(* Model of the streaming-session state machine of the chat page           *)
(* (frontend/src/pages/ChatPage.vue) and of the chat call of the API       *)
(* layer (frontend/src/api/agent.ts).                                      *)
(*                                                                         *)
(* The reactive state object of the page is the record `state`; the        *)
(* reducer functions (handleEvent and the handlers it dispatches to) are   *)
(* operators over a context [s |-> state, p |-> toolPanel]; the controller *)
(* operations (chat, restoreSession, the route and lifecycle hooks and the *)
(* channel callbacks) are actions.  An await in the source splits an       *)
(* operation into the action that runs up to the await and the action      *)
(* that runs its continuation.                                             *)
(***************************************************************************)
EXTENDS Integers, Sequences, FiniteSets, TLC

VARIABLES
    state,      \* the reactive state object (createInitialState)
    toolPanel,  \* the inspector: the showToolPanel calls it has received
    channels,   \* every Event Channel opened by chatWithSession, in order
    fetches,    \* every getSession request issued by restoreSession, with the
                \* session status it returned
    effects,    \* requests and notifications sent to other collaborators
    view,       \* lifecycle of the page: "created", "mounted", "unmounted"
    now,        \* Date.now(), in milliseconds
    served,     \* number of events the remote agent has emitted so far
    steps,      \* number of steps taken so far
    scroll,     \* the scroll container and the pending watch(messages) callback
    folded,     \* history: the events handleEvent folded since the last reset
    last        \* history: the operation that produced the current state

vars == <<state, toolPanel, channels, fetches, effects, view, now, served, steps,
          scroll, folded, last>>

----------------------------------------------------------------------------
(* Bounds of the model *)

\* events folded in a behaviour of the tool/step reducer specification
MaxFold == 5
\* events folded in a behaviour of the all-kinds reducer specification
MaxFoldAll == 4
\* steps in a behaviour of the controller
MaxSteps == 5
\* historical events returned by one getSession
MaxHistory == 3
\* steps in a behaviour of the scroll-follow specification
MaxFollowSteps == 7
\* steps in a behaviour of the inspector specification
MaxInspectSteps == 6
\* steps in a behaviour of the session specification
MaxSessionSteps == 6

----------------------------------------------------------------------------
(* Values *)

NoSession == "undefined"
SessionIds == {"A", "B"}

\* Text typed by the user or carried by an event: a sequence of characters.
Space == " "
Hi == <<"h", "i">>
Boom == <<"b", "o", "o", "m">>
Blank == <<Space>>

\* a field that the JSON payload does not carry
Absent == "absent"

ToolIds == {"A", "B", "C"}

NoTool == [tool_call_id |-> "", name |-> "", status |-> "", content |-> Absent,
           timestamp |-> 0, event_id |-> 0]

\* lastNoMessageTool: undefined, the very object stored in the transcript
\* (kind "ref", at path), or an object that is not part of the transcript
\* (kind "val")
NoRef == [kind |-> "none", path |-> <<>>, val |-> NoTool]

File1 == [file_id |-> "f1"]

----------------------------------------------------------------------------
(* createInitialState, ChatPage.vue 103-119.  lastTool is a path into the   *)
(* transcript (<<i>>: top-level entry i, <<i, j>>: tool j of Step entry i,  *)
(* <<>>: undefined); plan is <<>> (undefined) or <<planData>>;              *)
(* cancelCurrentChat is the channel whose cancel function is stored, 0 for  *)
(* null; lastEventId 0 is undefined.                                        *)
createInitialState ==
    [inputMessage |-> <<>>,
     isLoading |-> FALSE,
     sessionId |-> NoSession,
     messages |-> <<>>,
     realTime |-> TRUE,
     follow |-> TRUE,
     title |-> "New Chat",
     plan |-> <<>>,
     lastNoMessageTool |-> NoRef,
     lastTool |-> <<>>,
     lastEventId |-> 0,
     cancelCurrentChat |-> 0,
     attachments |-> <<>>]

\* the object a path refers to
Deref(msgs, path) ==
    IF Len(path) = 1 THEN msgs[path[1]].content
    ELSE msgs[path[1]].content.tools[path[2]]

\* the transcript with the object at path replaced
Update(msgs, path, v) ==
    IF Len(path) = 1 THEN [msgs EXCEPT ![path[1]].content = v]
    ELSE [msgs EXCEPT ![path[1]].content.tools[path[2]] = v]

\* the tool objects of one transcript entry
ToolsOf(m) ==
    IF m.type = "tool" THEN <<m.content>>
    ELSE IF m.type = "step" THEN m.content.tools
    ELSE <<>>

\* every tool object of the transcript: top-level entries and the tools
\* nested under Step entries
RECURSIVE AllTools(_)
AllTools(msgs) ==
    IF msgs = <<>> THEN <<>> ELSE ToolsOf(Head(msgs)) \o AllTools(Tail(msgs))

\* the value of lastNoMessageTool (NoTool when undefined)
LastNoMessageToolValue(s) ==
    IF s.lastNoMessageTool.kind = "ref" THEN Deref(s.messages, s.lastNoMessageTool.path)
    ELSE s.lastNoMessageTool.val

\* Object.assign(target, source) on tool objects: every field the source
\* carries overwrites the target's; a field it does not carry is kept
ObjectAssign(target, source) ==
    [source EXCEPT !.content = IF source.content = Absent THEN target.content
                                ELSE source.content]

\* toolPanel.showToolPanel(tool, live)
showToolPanel(p, tool, live) ==
    [calls |-> p.calls + 1, tool |-> tool, live |-> live]

----------------------------------------------------------------------------
(* The reducer, ChatPage.vue 169-281 *)

RECURSIVE LastIndexOfType(_, _, _)
LastIndexOfType(msgs, type, i) ==
    IF i = 0 THEN 0
    ELSE IF msgs[i].type = type THEN i
    ELSE LastIndexOfType(msgs, type, i - 1)

\* index of the most recent Step entry, 0 when there is none
getLastStep(msgs) == LastIndexOfType(msgs, "step", Len(msgs))

handleMessageEvent(cx, messageData) ==
    LET m1 == Append(cx.s.messages, [type |-> messageData.role, content |-> messageData])
        m2 == IF Len(messageData.attachments) > 0
              THEN Append(m1, [type |-> "attachments", content |-> messageData])
              ELSE m1
    IN [cx EXCEPT !.s.messages = m2]

\* the status of the last Step ignored
StepExists(msgs, lastStep) == lastStep # 0

\* lastStep?.status === 'running'
StepIsRunning(msgs, lastStep) ==
    IF lastStep = 0 THEN FALSE ELSE msgs[lastStep].content.status = "running"

handleToolEvent(cx, toolData) ==
    LET s == cx.s
        lastStep == getLastStep(s.messages)
        toolContent == toolData
        sameTool == /\ s.lastTool # <<>>
                    /\ Deref(s.messages, s.lastTool).tool_call_id = toolContent.tool_call_id
        openStep == StepIsRunning(s.messages, lastStep)
        s1 == IF sameTool
              THEN [s EXCEPT !.messages =
                        Update(s.messages, s.lastTool,
                               ObjectAssign(Deref(s.messages, s.lastTool), toolContent))]
              ELSE IF openStep
              THEN [s EXCEPT !.messages[lastStep].content.tools = Append(@, toolContent),
                             !.lastTool = <<lastStep,
                                            Len(s.messages[lastStep].content.tools) + 1>>]
              ELSE [s EXCEPT !.messages = Append(@, [type |-> "tool", content |-> toolContent]),
                             !.lastTool = <<Len(s.messages) + 1>>]
        s2 == IF toolContent.name # "message"
              THEN [s1 EXCEPT !.lastNoMessageTool =
                        IF sameTool THEN [kind |-> "val", path |-> <<>>, val |-> toolContent]
                        ELSE [kind |-> "ref", path |-> s1.lastTool, val |-> NoTool]]
              ELSE s1
        p2 == IF toolContent.name # "message" /\ s.realTime
              THEN showToolPanel(cx.p, toolContent, TRUE)
              ELSE cx.p
    IN [s |-> s2, p |-> p2]

handleStepEvent(cx, stepData) ==
    LET s == cx.s
        lastStep == getLastStep(s.messages)
    IN IF stepData.status = "running"
       THEN [cx EXCEPT !.s.messages =
                 Append(@, [type |-> "step",
                            content |-> [id |-> stepData.id,
                                         description |-> stepData.description,
                                         status |-> stepData.status,
                                         event_id |-> stepData.event_id,
                                         tools |-> <<>>]])]
       ELSE IF stepData.status = "completed"
       THEN IF lastStep # 0
            THEN [cx EXCEPT !.s.messages[lastStep].content.status = stepData.status]
            ELSE cx
       ELSE IF stepData.status = "failed"
       THEN [cx EXCEPT !.s.isLoading = FALSE]
       ELSE cx

\* the loading indicator left on
handleErrorEventKeepsLoading(cx, errorData) ==
    [cx EXCEPT !.s.messages = Append(@, [type |-> "assistant",
                                         content |-> [content |-> errorData.error,
                                                      timestamp |-> errorData.timestamp]])]

handleErrorEvent(cx, errorData) ==
    [cx EXCEPT !.s.isLoading = FALSE,
               !.s.messages = Append(@, [type |-> "assistant",
                                         content |-> [content |-> errorData.error,
                                                      timestamp |-> errorData.timestamp]])]

handleTitleEvent(cx, titleData) == [cx EXCEPT !.s.title = titleData.title]

\* the steps of the event merged into the prior snapshot
handlePlanEventMerges(cx, planData) ==
    [cx EXCEPT !.s.plan =
        IF cx.s.plan = <<>> THEN <<planData>>
        ELSE <<[planData EXCEPT !.steps = cx.s.plan[1].steps \o @]>>]

handlePlanEvent(cx, planData) == [cx EXCEPT !.s.plan = <<planData>>]

\* the cursor left alone by the events that have no transcript effect
AdvanceCursorSkipsNoOps(cx, event) ==
    IF event.event \in {"done", "wait"} THEN cx
    ELSE [cx EXCEPT !.s.lastEventId = event.data.event_id]

\* lastEventId.value = event.data.event_id
AdvanceCursor(cx, event) == [cx EXCEPT !.s.lastEventId = event.data.event_id]

handleEvent(cx, event) ==
    LET c1 == IF event.event = "message" THEN handleMessageEvent(cx, event.data)
              ELSE IF event.event = "tool" THEN handleToolEvent(cx, event.data)
              ELSE IF event.event = "step" THEN handleStepEvent(cx, event.data)
              ELSE IF event.event = "done" THEN cx
              ELSE IF event.event = "wait" THEN cx
              ELSE IF event.event = "error" THEN handleErrorEvent(cx, event.data)
              ELSE IF event.event = "title" THEN handleTitleEvent(cx, event.data)
              ELSE IF event.event = "plan" THEN handlePlanEvent(cx, event.data)
              ELSE cx
    IN AdvanceCursor(c1, event)

\* handleEvent applied to a list of events in order (the loop of
\* restoreSession, ChatPage.vue 374-376)
RECURSIVE FoldEvents(_, _)
FoldEvents(cx, events) ==
    IF events = <<>> THEN cx
    ELSE FoldEvents(handleEvent(cx, Head(events)), Tail(events))

----------------------------------------------------------------------------
(* The Event Channel.  createSSEConnection (frontend/src/api/client.ts) is  *)
(* modelled from its contract: opening a channel is an asynchronous         *)
(* handshake that resolves to the cancel function or rejects; a channel     *)
(* delivers callbacks only between the handshake and its cancel, close or   *)
(* error; cancel is idempotent.                                             *)

\* status of a channel whose open has been issued and that has not been
\* cancelled, closed or failed
LiveStatus == {"opening", "open"}

createSSEConnection(request) ==
    [request |-> request, status |-> "opening", opened |-> FALSE]

\* the cancel function of channel c
cancel(chs, c) ==
    IF chs[c].status \in LiveStatus THEN [chs EXCEPT ![c].status = "cancelled"]
    ELSE chs

\* the resume cursor left out of the request
chatWithSessionNoCursor(sessionId, message, eventId, attachments) ==
    createSSEConnection([sid |-> sessionId,
                         body |-> [message |-> message,
                                   timestamp |-> now \div 1000,
                                   event_id |-> 0,
                                   attachments |-> attachments]])

\* chatWithSession, agent.ts 83-103: the request of the channel it opens
chatWithSession(sessionId, message, eventId, attachments) ==
    createSSEConnection([sid |-> sessionId,
                         body |-> [message |-> message,
                                   timestamp |-> now \div 1000,
                                   event_id |-> eventId,
                                   attachments |-> attachments]])

----------------------------------------------------------------------------
(* The controller, ChatPage.vue 149-157 and 283-470.  Its operations are    *)
(* operators over the world [s |-> state, p |-> toolPanel, ch |-> channels, *)
(* ft |-> fetches, eff |-> effects].                                        *)

World == [s |-> state, p |-> toolPanel, ch |-> channels, ft |-> fetches, eff |-> effects]

\* String.prototype.trim over the model's texts
RECURSIVE TrimStart(_)
TrimStart(text) ==
    IF text # <<>> /\ Head(text) = Space THEN TrimStart(Tail(text)) ELSE text

RECURSIVE TrimEnd(_)
TrimEnd(text) ==
    IF text # <<>> /\ text[Len(text)] = Space
    THEN TrimEnd(SubSeq(text, 1, Len(text) - 1)) ELSE text

Trim(text) == TrimEnd(TrimStart(text))

RECURSIVE FileIds(_)
FileIds(files) ==
    IF files = <<>> THEN <<>> ELSE <<Head(files).file_id>> \o FileIds(Tail(files))

\* the existing chat connection left open
resetStateKeepsChannel(w) == [w EXCEPT !.s = createInitialState]

\* resetState, ChatPage.vue 149-157
resetState(w) ==
    LET w1 == IF w.s.cancelCurrentChat # 0
              THEN [w EXCEPT !.ch = cancel(@, w.s.cancelCurrentChat)]
              ELSE w
    IN [w1 EXCEPT !.s = createInitialState]

\* the tool call in progress rolled back with the connection
CancelExistingRollsBack(w) ==
    IF w.s.cancelCurrentChat # 0
    THEN LET n == Len(w.s.messages)
             inProgress == /\ n > 0
                           /\ w.s.messages[n].type = "tool"
                           /\ w.s.messages[n].content.status = "calling"
         IN [w EXCEPT !.ch = cancel(@, w.s.cancelCurrentChat),
                      !.s.cancelCurrentChat = 0,
                      !.s.messages = IF inProgress THEN SubSeq(@, 1, n - 1) ELSE @,
                      !.s.lastTool = IF inProgress THEN <<>> ELSE @,
                      !.s.lastNoMessageTool = IF inProgress THEN NoRef ELSE @]
    ELSE w

\* chat, ChatPage.vue 288-294: cancel any existing chat connection
CancelExisting(w) ==
    IF w.s.cancelCurrentChat # 0
    THEN [w EXCEPT !.ch = cancel(@, w.s.cancelCurrentChat), !.s.cancelCurrentChat = 0]
    ELSE w

\* the text not trimmed
OptimisticEntriesUntrimmed(message, files) ==
    (IF message # <<>>
     THEN <<[type |-> "user",
             content |-> [content |-> message, timestamp |-> now \div 1000]]>>
     ELSE <<>>)
    \o
    (IF Len(files) > 0
     THEN <<[type |-> "attachments",
             content |-> [role |-> "user", attachments |-> files]]>>
     ELSE <<>>)

\* chat, ChatPage.vue 296-315: the optimistic entries
OptimisticEntries(message, files) ==
    (IF Trim(message) # <<>>
     THEN <<[type |-> "user",
             content |-> [content |-> message, timestamp |-> now \div 1000]]>>
     ELSE <<>>)
    \o
    (IF Len(files) > 0
     THEN <<[type |-> "attachments",
             content |-> [role |-> "user", attachments |-> files]]>>
     ELSE <<>>)

\* chat, ChatPage.vue 290-331: from the cancellation of the existing
\* connection up to the await of chatWithSession
chatBody(w, message, files) ==
    LET w1 == CancelExisting(w)
        s2 == [w1.s EXCEPT !.messages = @ \o OptimisticEntries(message, files),
                           !.follow = TRUE,
                           !.inputMessage = <<>>,
                           !.isLoading = TRUE]
    IN [w1 EXCEPT !.s = s2,
                  !.ch = Append(@, chatWithSession(s2.sessionId, message,
                                                   s2.lastEventId, FileIds(files)))]

\* the session id not checked
chatUnguarded(w, message, files) == chatBody(w, message, files)

\* chat, ChatPage.vue 287-331: the part that runs up to the await of
\* chatWithSession
chat(w, message, files) ==
    IF w.s.sessionId = NoSession THEN w ELSE chatBody(w, message, files)

\* the replay folded as live events are
ReplayLive(cx, events) == FoldEvents(cx, events)

\* restoreSession, ChatPage.vue 373-377: the replay of the historical events
Replay(cx, events) ==
    LET c1 == [cx EXCEPT !.s.realTime = FALSE]
        c2 == FoldEvents(c1, events)
    IN [c2 EXCEPT !.s.realTime = TRUE]

\* SessionStatus.PENDING not taken for a session in progress
IsRunningStatus(status) == status = "running"

\* SessionStatus.RUNNING or SessionStatus.PENDING
IsActiveStatus(status) == status \in {"running", "pending"}

\* restoreSession, ChatPage.vue 367-372: the part that runs up to the await
\* of getSession
restoreSession(w) ==
    IF w.s.sessionId = NoSession
    THEN [w EXCEPT !.eff.toasts = @ + 1]
    ELSE [w EXCEPT !.ft = Append(@, [sid |-> w.s.sessionId, status |-> "pending",
                                      session |-> "", channel |-> 0])]

\* restoreSession, ChatPage.vue 373-380: from the resolution of getSession
\* up to the await of chat (or to the end when chat is not called)
restoreFetched(w, f, session) ==
    LET cx == Replay([s |-> w.s, p |-> w.p], session.events)
        w1 == [w EXCEPT !.s = cx.s, !.p = cx.p, !.ft[f].status = "resolved",
                       !.ft[f].session = session.status]
    IN IF IsActiveStatus(session.status)
       THEN LET w2 == chat(w1, <<>>, <<>>)
            IN IF Len(w2.ch) > Len(w1.ch)
               THEN [w2 EXCEPT !.ft[f].channel = Len(w2.ch)]
               ELSE [w2 EXCEPT !.eff.cleared = @ + 1]
       ELSE [w1 EXCEPT !.eff.cleared = @ + 1]

\* the end of restoreSession once the chat it awaited has returned:
\* clearUnreadMessageCount, ChatPage.vue 381
AfterChat(w, c) ==
    IF \E f \in DOMAIN w.ft : w.ft[f].channel = c
    THEN [w EXCEPT !.eff.cleared = @ + 1]
    ELSE w

----------------------------------------------------------------------------
(* Events the remote agent emits.  A body is an event whose event_id is    *)
(* still to be assigned; the agent numbers the events it emits.            *)

ToolEvent(id, name, status, content) ==
    [event |-> "tool",
     data |-> [tool_call_id |-> id, name |-> name, status |-> status,
               content |-> content, timestamp |-> 590, event_id |-> 0]]

StepEvent(status) ==
    [event |-> "step",
     data |-> [id |-> "s1", description |-> "d", status |-> status, event_id |-> 0]]

\* a step event of the step with the given id
StepEventOf(id, status) == [StepEvent(status) EXCEPT !.data.id = id]

MessageEvent(role, content, attachments) ==
    [event |-> "message",
     data |-> [role |-> role, content |-> content, timestamp |-> 580,
               attachments |-> attachments, event_id |-> 0]]

ErrorEvent(error) ==
    [event |-> "error", data |-> [error |-> error, timestamp |-> 595, event_id |-> 0]]

TitleEvent(title) == [event |-> "title", data |-> [title |-> title, event_id |-> 0]]

PlanEvent(planSteps) == [event |-> "plan", data |-> [steps |-> planSteps, event_id |-> 0]]

BareEvent(kind) == [event |-> kind, data |-> [event_id |-> 0]]

WithId(body, id) == [body EXCEPT !.data.event_id = id]

\* tool and step events: three tool calls, each calling or called
ToolStepBodies ==
    {ToolEvent(id, "bash", "calling", Absent) : id \in ToolIds}
    \cup {ToolEvent(id, "bash", "called", "ok") : id \in ToolIds}
    \cup {StepEvent(st) : st \in {"running", "completed", "failed"}}

\* events of every kind
AllBodies ==
    {ToolEvent("A", "bash", "calling", Absent), ToolEvent("A", "bash", "called", "ok"),
     ToolEvent("B", "message", "calling", Absent), ToolEvent("A", "message", "called", "ok"),
     StepEvent("running"), StepEvent("completed"), StepEvent("failed"),
     MessageEvent("user", Hi, <<>>), MessageEvent("assistant", Hi, <<File1>>),
     ErrorEvent(Boom), TitleEvent("t1"), PlanEvent(<<"p1">>), PlanEvent(<<>>),
     BareEvent("done"), BareEvent("wait")}

\* events of the controller specification
CtlBodies ==
    {ToolEvent("A", "bash", "calling", Absent), MessageEvent("user", Hi, <<>>),
     BareEvent("done")}

\* the lists of at most n bodies
RECURSIVE BodyLists(_, _)
BodyLists(bodies, n) ==
    IF n = 0 THEN {<<>>}
    ELSE LET shorter == BodyLists(bodies, n - 1)
         IN shorter \cup {Append(l, b) : l \in shorter, b \in bodies}

\* a list of bodies numbered from first
Numbered(list, first) == [i \in DOMAIN list |-> WithId(list[i], first + i - 1)]

----------------------------------------------------------------------------
(* Actions *)

\* watch(messages, ..., { deep: true }), ChatPage.vue 160: a step that
\* changes the transcript schedules the callback
Observe ==
    scroll' = IF state'.messages # state.messages
              THEN [scroll EXCEPT !.pending = TRUE]
              ELSE scroll

Apply(w) ==
    /\ state' = w.s
    /\ toolPanel' = w.p
    /\ channels' = w.ch
    /\ fetches' = w.ft
    /\ effects' = w.eff

\* onMounted, ChatPage.vue 399-417
onMounted(routeSid, message, files) ==
    /\ view = "created"
    /\ LET w1 == [World EXCEPT !.s.sessionId = routeSid]
           w2 == IF routeSid = NoSession THEN World
                 ELSE IF message # <<>> THEN chat(w1, message, files)
                 ELSE restoreSession(w1)
       IN /\ Apply(w2)
          /\ last' = "onMounted"
    /\ view' = "mounted"
    /\ UNCHANGED <<now, served, folded>>
    /\ Observe

\* the user edits the input box and its attachment list (v-model of ChatBox)
SetInput(text, files) ==
    /\ view = "mounted"
    /\ state' = [state EXCEPT !.inputMessage = text, !.attachments = files]
    /\ last' = "setInput"
    /\ UNCHANGED <<toolPanel, channels, fetches, effects, view, now, served, folded>>
    /\ Observe

\* handleSubmit, ChatPage.vue 283-285
handleSubmit ==
    /\ view = "mounted"
    /\ LET w2 == chat(World, state.inputMessage, state.attachments)
       IN /\ Apply(w2)
          /\ last' = "handleSubmit"
    /\ UNCHANGED <<view, now, served, folded>>
    /\ Observe

\* chat, ChatPage.vue 326: the handshake of channel c resolves and the
\* cancel function is stored
ChatOpened(c) ==
    /\ channels[c].status = "opening"
    /\ LET w1 == [World EXCEPT !.ch[c].status = "open", !.s.cancelCurrentChat = c]
       IN Apply(AfterChat(w1, c))
    /\ last' = "chatOpened"
    /\ UNCHANGED <<view, now, served, folded>>
    /\ Observe

\* chat, ChatPage.vue 360-364: the handshake of channel c rejects
ChatRejected(c) ==
    /\ channels[c].status = "opening"
    /\ LET w1 == [World EXCEPT !.ch[c].status = "rejected",
                               !.s.isLoading = FALSE,
                               !.s.cancelCurrentChat = 0]
       IN Apply(AfterChat(w1, c))
    /\ last' = "chatRejected"
    /\ UNCHANGED <<view, now, served, folded>>
    /\ Observe

\* onOpen, ChatPage.vue 332-335
OnOpen(c) ==
    /\ channels[c].status = "open"
    /\ ~channels[c].opened
    /\ channels' = [channels EXCEPT ![c].opened = TRUE]
    /\ state' = [state EXCEPT !.isLoading = TRUE]
    /\ last' = "onOpen"
    /\ UNCHANGED <<toolPanel, fetches, effects, view, now, served, folded>>
    /\ Observe

\* onMessage, ChatPage.vue 336-341
OnMessage(c, body) ==
    /\ channels[c].status = "open"
    /\ channels[c].opened
    /\ LET event == WithId(body, served + 1)
           cx == handleEvent([s |-> state, p |-> toolPanel], event)
       IN /\ state' = cx.s
          /\ toolPanel' = cx.p
          /\ folded' = Append(folded, event)
          /\ last' = "onMessage"
    /\ served' = served + 1
    /\ UNCHANGED <<channels, fetches, effects, view, now>>
    /\ Observe

\* the stored cancel function kept
ClearChatKeepsHandle(s) == [s EXCEPT !.isLoading = FALSE]

\* onClose and onError, ChatPage.vue 342-357: both clear the loading
\* indicator and the stored cancel function
ClearChat(s) ==
    [s EXCEPT !.isLoading = FALSE,
              !.cancelCurrentChat = IF s.cancelCurrentChat # 0 THEN 0 ELSE @]

\* onClose, ChatPage.vue 342-349
OnClose(c) ==
    /\ channels[c].status = "open"
    /\ channels[c].opened
    /\ channels' = [channels EXCEPT ![c].status = "closed"]
    /\ state' = ClearChat(state)
    /\ last' = "onClose"
    /\ UNCHANGED <<toolPanel, fetches, effects, view, now, served, folded>>
    /\ Observe

\* onError, ChatPage.vue 350-357
OnError(c) ==
    /\ channels[c].status = "open"
    /\ channels' = [channels EXCEPT ![c].status = "errored"]
    /\ state' = ClearChat(state)
    /\ last' = "onError"
    /\ UNCHANGED <<toolPanel, fetches, effects, view, now, served, folded>>
    /\ Observe

\* restoreSession, ChatPage.vue 372-380: getSession request f resolves
RestoreFetched(f, bodies, status) ==
    /\ fetches[f].status = "pending"
    /\ LET events == Numbered(bodies, served + 1)
           w2 == restoreFetched(World, f, [events |-> events, status |-> status])
       IN /\ Apply(w2)
          /\ folded' = folded \o events
          /\ last' = "restoreFetched"
    /\ served' = served + Len(bodies)
    /\ UNCHANGED <<view, now>>
    /\ Observe

\* restoreSession, ChatPage.vue 372: getSession request f rejects; the
\* rejection leaves restoreSession and is handled nowhere
FetchFailed(f) ==
    /\ fetches[f].status = "pending"
    /\ fetches' = [fetches EXCEPT ![f].status = "rejected"]
    /\ last' = "fetchFailed"
    /\ UNCHANGED <<state, toolPanel, channels, effects, view, now, served, folded>>
    /\ Observe

\* onBeforeRouteUpdate, ChatPage.vue 386-396
onBeforeRouteUpdate(to) ==
    /\ view = "mounted"
    /\ to # state.sessionId
    /\ LET w1 == resetState(World)
           w2 == IF to # NoSession
                 THEN restoreSession([w1 EXCEPT !.s.messages = <<>>, !.s.sessionId = to])
                 ELSE w1
       IN Apply(w2)
    /\ folded' = <<>>
    /\ last' = "onBeforeRouteUpdate"
    /\ UNCHANGED <<view, now, served>>
    /\ scroll' = [scroll EXCEPT !.pending = TRUE]

\* onUnmounted, ChatPage.vue 419-424
onUnmounted ==
    /\ view = "mounted"
    /\ Apply(CancelExisting(World))
    /\ view' = "unmounted"
    /\ last' = "onUnmounted"
    /\ UNCHANGED <<now, served, folded>>
    /\ Observe

\* the local channel closed by the stop
handleStopClosesChannel ==
    /\ view = "mounted"
    /\ LET w1 == CancelExisting(World)
       IN Apply([w1 EXCEPT !.s.isLoading = FALSE,
                           !.eff.stops = IF state.sessionId # NoSession THEN @ + 1 ELSE @])
    /\ last' = "handleStop"
    /\ UNCHANGED <<view, now, served, folded>>
    /\ Observe

\* handleStop, ChatPage.vue 466-470, and stopSession, agent.ts 42-44
handleStop ==
    /\ view = "mounted"
    /\ effects' = IF state.sessionId # NoSession
                  THEN [effects EXCEPT !.stops = @ + 1]
                  ELSE effects
    /\ last' = "handleStop"
    /\ UNCHANGED <<state, toolPanel, channels, fetches, view, now, served, folded>>
    /\ Observe

\* FollowMode not consulted
ShouldScrollAlways(s) == TRUE

\* the callback of watch(messages), ChatPage.vue 160-165, after its nextTick
ShouldScroll(s) == s.follow

watchMessages ==
    /\ view # "unmounted"
    /\ scroll.pending
    /\ scroll' = IF ShouldScroll(state)
                 THEN [pending |-> FALSE, scrolls |-> scroll.scrolls + 1, atBottom |-> TRUE]
                 ELSE [scroll EXCEPT !.pending = FALSE]
    /\ last' = "watchMessages"
    /\ UNCHANGED <<state, toolPanel, channels, fetches, effects, view, now, served, folded>>

\* handleScroll, ChatPage.vue 462-464: the scroll container reports whether
\* the view is at the bottom
handleScroll(atBottom) ==
    /\ view = "mounted"
    /\ state' = [state EXCEPT !.follow = atBottom]
    /\ scroll' = [scroll EXCEPT !.atBottom = atBottom]
    /\ last' = "handleScroll"
    /\ UNCHANGED <<toolPanel, channels, fetches, effects, view, now, served, folded>>

\* handleFollow, ChatPage.vue 457-460; its button is rendered when a plan
\* with steps is shown and FollowMode is off (template, lines 51-52)
handleFollow ==
    /\ view = "mounted"
    /\ ~state.follow
    /\ state.plan # <<>>
    /\ Len(state.plan[1].steps) > 0
    /\ state' = [state EXCEPT !.follow = TRUE]
    /\ scroll' = [scroll EXCEPT !.scrolls = @ + 1, !.atBottom = TRUE]
    /\ last' = "handleFollow"
    /\ UNCHANGED <<toolPanel, channels, fetches, effects, view, now, served, folded>>

\* isLastNoMessageTool, ChatPage.vue 426-428
isLastNoMessageTool(s, tool) ==
    /\ s.lastNoMessageTool.kind # "none"
    /\ tool.tool_call_id = LastNoMessageToolValue(s).tool_call_id

\* isLiveTool, ChatPage.vue 430-441: tool.timestamp is compared with
\* Date.now() - 5 * 60 * 1000 as the numbers they are
isLiveTool(s, tool) ==
    IF tool.status = "calling" THEN TRUE
    ELSE IF ~isLastNoMessageTool(s, tool) THEN FALSE
    ELSE IF tool.timestamp > now - 5 * 60 * 1000 THEN TRUE
    ELSE FALSE

\* real-time mode left on by the click
handleToolClickKeepsRealTime(i) ==
    /\ view = "mounted"
    /\ i \in DOMAIN AllTools(state.messages)
    /\ LET tool == AllTools(state.messages)[i]
       IN toolPanel' = IF state.sessionId # NoSession
                       THEN showToolPanel(toolPanel, tool, isLiveTool(state, tool))
                       ELSE toolPanel
    /\ last' = "handleToolClick"
    /\ UNCHANGED <<state, channels, fetches, effects, view, now, served, scroll, folded>>

\* handleToolClick, ChatPage.vue 443-448: tool i of the transcript is clicked
handleToolClick(i) ==
    /\ view = "mounted"
    /\ i \in DOMAIN AllTools(state.messages)
    /\ LET tool == AllTools(state.messages)[i]
           s1 == [state EXCEPT !.realTime = FALSE]
       IN /\ state' = s1
          /\ toolPanel' = IF s1.sessionId # NoSession
                          THEN showToolPanel(toolPanel, tool, isLiveTool(s1, tool))
                          ELSE toolPanel
    /\ last' = "handleToolClick"
    /\ UNCHANGED <<channels, fetches, effects, view, now, served, scroll, folded>>

\* jumpToRealTime, ChatPage.vue 450-455
jumpToRealTime ==
    /\ view = "mounted"
    /\ LET s1 == [state EXCEPT !.realTime = TRUE]
       IN /\ state' = s1
          /\ toolPanel' = IF s1.lastNoMessageTool.kind # "none"
                          THEN showToolPanel(toolPanel, LastNoMessageToolValue(s1),
                                             isLiveTool(s1, LastNoMessageToolValue(s1)))
                          ELSE toolPanel
    /\ last' = "jumpToRealTime"
    /\ UNCHANGED <<channels, fetches, effects, view, now, served, scroll, folded>>

----------------------------------------------------------------------------
(* Specifications *)

NoEffects == [stops |-> 0, toasts |-> 0, cleared |-> 0]

\* the scroll container before any scroll: no callback of watch(messages)
\* pending, no scrollToBottom call yet, the view at the bottom
NoScroll == [pending |-> FALSE, scrolls |-> 0, atBottom |-> TRUE]

\* the page after construction
Init ==
    /\ state = createInitialState
    /\ toolPanel = [calls |-> 0, tool |-> NoTool, live |-> FALSE]
    /\ channels = <<>>
    /\ fetches = <<>>
    /\ effects = NoEffects
    /\ view = "created"
    /\ now = 600000
    /\ served = 0
    /\ steps = 0
    /\ scroll = NoScroll
    /\ folded = <<>>
    /\ last = "init"

Texts == {<<>>, Blank, Hi}
FileLists == {<<>>, <<File1>>}
Statuses == {"pending", "running", "completed", "failed"}

\* inputs of the controller specification
CtlInputs == {<<Hi, <<>>>>, <<<<>>, <<File1>>>>}
CtlStatuses == {"running", "completed"}
CtlHistories ==
    {<<>>, <<MessageEvent("user", Hi, <<>>)>>,
     <<ToolEvent("A", "bash", "calling", Absent), BareEvent("done")>>}

\* every step of the controller counts against the step budget
Tick == steps < MaxSteps /\ steps' = steps + 1

Next ==
    \/ \E sid \in {NoSession, "A"}, text \in {<<>>, Hi}, files \in FileLists :
          /\ sid = NoSession => text = <<>>
          /\ text = <<>> => files = <<>>
          /\ onMounted(sid, text, files) /\ Tick
    \/ \E in \in CtlInputs : SetInput(in[1], in[2]) /\ Tick
    \/ handleSubmit /\ Tick
    \/ handleStop /\ Tick
    \/ \E c \in DOMAIN channels : ChatOpened(c) /\ Tick
    \/ \E c \in DOMAIN channels : ChatRejected(c) /\ Tick
    \/ \E c \in DOMAIN channels : OnOpen(c) /\ Tick
    \/ \E c \in DOMAIN channels, body \in CtlBodies : OnMessage(c, body) /\ Tick
    \/ \E c \in DOMAIN channels : OnClose(c) /\ Tick
    \/ \E c \in DOMAIN channels : OnError(c) /\ Tick
    \/ \E f \in DOMAIN fetches, bodies \in CtlHistories, status \in CtlStatuses :
          RestoreFetched(f, bodies, status) /\ Tick
    \/ \E f \in DOMAIN fetches : FetchFailed(f) /\ Tick
    \/ \E to \in SessionIds \cup {NoSession} : onBeforeRouteUpdate(to) /\ Tick
    \/ onUnmounted /\ Tick

Spec == Init /\ [][Next]_vars

\* the page attached to running session A: mounted on its route, the
\* (empty) history restored, the channel of the re-attach open
InitAttached ==
    /\ state = [createInitialState EXCEPT !.sessionId = "A", !.isLoading = TRUE,
                                          !.cancelCurrentChat = 1]
    /\ toolPanel = [calls |-> 0, tool |-> NoTool, live |-> FALSE]
    /\ channels = <<[request |-> [sid |-> "A",
                                  body |-> [message |-> <<>>, timestamp |-> 600,
                                            event_id |-> 0, attachments |-> <<>>]],
                     status |-> "open", opened |-> TRUE]>>
    /\ fetches = <<[sid |-> "A", status |-> "resolved", session |-> "running",
                    channel |-> 1]>>
    /\ effects = [stops |-> 0, toasts |-> 0, cleared |-> 1]
    /\ view = "mounted"
    /\ now = 600000
    /\ served = 0
    /\ steps = 0
    /\ scroll = NoScroll
    /\ folded = <<>>
    /\ last = "onOpen"

\* the reducer folding tool and step events delivered by the channel
NextTools ==
    /\ served < MaxFold
    /\ \E body \in ToolStepBodies : OnMessage(1, body)
    /\ UNCHANGED steps

SpecTools == InitAttached /\ [][NextTools]_vars

\* the reducer folding events of every kind delivered by the channel
NextFold ==
    /\ served < MaxFoldAll
    /\ \E body \in AllBodies : OnMessage(1, body)
    /\ UNCHANGED steps

SpecFold == InitAttached /\ [][NextFold]_vars

\* the chat operations on every input of the input box, without the
\* remote agent's events
ChatTexts == {<<>>, Blank, Hi, <<Space, "h">>}

NextChat ==
    \/ \E sid \in {NoSession, "A"}, text \in ChatTexts, files \in FileLists :
          /\ sid = NoSession => (text = <<>> /\ files = <<>>)
          /\ onMounted(sid, text, files) /\ Tick
    \/ \E text \in ChatTexts, files \in FileLists : SetInput(text, files) /\ Tick
    \/ handleSubmit /\ Tick
    \/ handleStop /\ Tick
    \/ \E c \in DOMAIN channels : ChatOpened(c) /\ Tick
    \/ \E c \in DOMAIN channels : ChatRejected(c) /\ Tick
    \/ \E c \in DOMAIN channels : OnOpen(c) /\ Tick
    \/ \E c \in DOMAIN channels : OnClose(c) /\ Tick
    \/ \E c \in DOMAIN channels : OnError(c) /\ Tick

SpecChat == Init /\ [][NextChat]_vars

\* restoreSession of the session the page is mounted on, on histories of
\* tool, title and plan events
RestoreBodies ==
    {ToolEvent("A", "bash", "calling", Absent), ToolEvent("A", "bash", "called", "ok"),
     ToolEvent("B", "message", "calling", Absent), TitleEvent("t1"), PlanEvent(<<"p1">>)}

RestoreHistories == BodyLists(RestoreBodies, MaxHistory)

NextRestore ==
    \/ \E sid \in {NoSession, "A"}, text \in {<<>>, Hi} :
          /\ sid = NoSession => text = <<>>
          /\ onMounted(sid, text, <<>>) /\ UNCHANGED steps
    \/ \E f \in DOMAIN fetches, bodies \in RestoreHistories, status \in Statuses :
          RestoreFetched(f, bodies, status) /\ UNCHANGED steps
    \/ \E f \in DOMAIN fetches : FetchFailed(f) /\ UNCHANGED steps

SpecRestore == Init /\ [][NextRestore]_vars

\* scroll-follow: the transcript grows by the channel's events and by sent
\* messages while the user scrolls
FollowBodies == {MessageEvent("assistant", Hi, <<>>), PlanEvent(<<"p1">>)}

TickFollow == steps < MaxFollowSteps /\ steps' = steps + 1

NextFollow ==
    \/ \E c \in DOMAIN channels, body \in FollowBodies : OnMessage(c, body) /\ TickFollow
    \/ watchMessages /\ TickFollow
    \/ \E atBottom \in BOOLEAN : handleScroll(atBottom) /\ TickFollow
    \/ handleFollow /\ TickFollow
    \/ SetInput(Hi, <<>>) /\ TickFollow
    \/ handleSubmit /\ TickFollow
    \/ \E c \in DOMAIN channels : ChatOpened(c) /\ TickFollow
    \/ \E c \in DOMAIN channels : OnOpen(c) /\ TickFollow

SpecFollow == InitAttached /\ [][NextFollow]_vars

\* the inspector: tool events of the channel, clicks on the tools of the
\* transcript and 'jump to real time'; each tool call keeps its name
InspectorBodies ==
    {ToolEvent("A", "bash", "calling", Absent), ToolEvent("A", "bash", "called", "ok"),
     ToolEvent("B", "message", "calling", Absent), ToolEvent("C", "bash", "called", "ok")}

TickInspect == steps < MaxInspectSteps /\ steps' = steps + 1

NextInspector ==
    \/ \E body \in InspectorBodies : OnMessage(1, body) /\ TickInspect
    \/ \E i \in DOMAIN AllTools(state.messages) : handleToolClick(i) /\ TickInspect
    \/ jumpToRealTime /\ TickInspect

SpecInspector == InitAttached /\ [][NextInspector]_vars

\* one session: the channel's events folded and messages sent, each send
\* cancelling the channel in flight
SessionBodies ==
    {ToolEvent("A", "bash", "calling", Absent), ToolEvent("A", "bash", "called", "ok"),
     StepEvent("running"), StepEvent("completed"), MessageEvent("assistant", Hi, <<>>)}

TickSession == steps < MaxSessionSteps /\ steps' = steps + 1

NextSession ==
    \/ \E c \in DOMAIN channels, body \in SessionBodies : OnMessage(c, body) /\ TickSession
    \/ SetInput(Hi, <<File1>>) /\ TickSession
    \/ handleSubmit /\ TickSession
    \/ \E c \in DOMAIN channels : ChatOpened(c) /\ TickSession
    \/ \E c \in DOMAIN channels : OnOpen(c) /\ TickSession

SpecSession == InitAttached /\ [][NextSession]_vars

\* the reducer folding the step events of two steps, and a tool event
StepBodies ==
    {StepEventOf(id, st) : id \in {"s1", "s2"}, st \in {"running", "completed", "failed"}}
    \cup {ToolEvent("A", "bash", "calling", Absent)}

NextSteps ==
    /\ served < MaxFold
    /\ \E body \in StepBodies : OnMessage(1, body)
    /\ UNCHANGED steps

SpecSteps == InitAttached /\ [][NextSteps]_vars

\* TLC refutes this: InitAttached is a state the controller reaches
AttachedUnreachable ==
    ~(/\ state = [createInitialState EXCEPT !.sessionId = "A", !.isLoading = TRUE,
                                            !.cancelCurrentChat = 1]
      /\ channels = <<[request |-> [sid |-> "A",
                                    body |-> [message |-> <<>>, timestamp |-> 600,
                                              event_id |-> 0, attachments |-> <<>>]],
                       status |-> "open", opened |-> TRUE]>>
      /\ fetches = <<[sid |-> "A", status |-> "resolved", session |-> "running",
                    channel |-> 1]>>
      /\ effects = [stops |-> 0, toasts |-> 0, cleared |-> 1]
      /\ view = "mounted" /\ served = 0 /\ folded = <<>> /\ last = "onOpen")

----------------------------------------------------------------------------
(* Vocabulary of the properties *)

Greatest(S) == CHOOSE i \in S : \A j \in S : j <= i

\* positions of the folded tool events with tool_call_id id
FoldedToolEvents(id) ==
    {i \in DOMAIN folded : /\ folded[i].event = "tool"
                           /\ folded[i].data.tool_call_id = id}

\* tool object obj carries every field that event data d carries
Reflects(obj, d) ==
    /\ obj.tool_call_id = d.tool_call_id
    /\ obj.name = d.name
    /\ obj.status = d.status
    /\ obj.timestamp = d.timestamp
    /\ obj.event_id = d.event_id
    /\ d.content # Absent => obj.content = d.content

\* a step that folds one event: the event folded
JustFolded == Len(folded') = Len(folded) + 1
FoldedEvent == folded'[Len(folded')]

\* the most recent Step entry of a transcript, 0 when it has none
MostRecentStep(msgs) ==
    LET stepEntries == {i \in DOMAIN msgs : msgs[i].type = "step"}
    IN IF stepEntries = {} THEN 0 ELSE Greatest(stepEntries)

\* event data d names a tool other than the tracked live tool of s
NotLiveTool(s, d) ==
    \/ s.lastTool = <<>>
    \/ Deref(s.messages, s.lastTool).tool_call_id # d.tool_call_id

IsTool(e, id) == e.event = "tool" /\ e.data.tool_call_id = id
IsStep(e, status) == e.event = "step" /\ e.data.status = status

----------------------------------------------------------------------------
(* C1.  Dedup invariant: after folding any sequence of events, for every   *)
(* tool_call_id that occurred in a folded tool event the transcript        *)
(* (top-level entries plus the tools nested under Step entries) holds      *)
(* exactly one ToolCall entry with that id, and its fields are those of    *)
(* the last folded tool event with that id.                                *)
C1_Dedup ==
    \A id \in ToolIds :
        FoldedToolEvents(id) # {} =>
            LET tools == AllTools(state.messages)
                at == {j \in DOMAIN tools : tools[j].tool_call_id = id}
                lastData == folded[Greatest(FoldedToolEvents(id))].data
            IN /\ Cardinality(at) = 1
               /\ \A j \in at : Reflects(tools[j], lastData)

(* C3.  Resume cursor: right after handleEvent folds an event of any kind,  *)
(* lastEventId is that event's own event_id.                                *)
C3_Cursor ==
    folded # <<>> => state.lastEventId = folded[Len(folded)].data.event_id

C3_Witness ==
    /\ Len(folded) >= 3
    /\ folded[Len(folded)].event = "wait"
    /\ folded[Len(folded) - 1].event = "done"
    /\ state.lastEventId = Len(folded)

\* the five events of the step-nesting scenario
IsNestingScenario(f) ==
    /\ Len(f) = 5
    /\ IsStep(f[1], "running")
    /\ IsTool(f[2], "A")
    /\ IsTool(f[3], "B")
    /\ IsStep(f[4], "completed")
    /\ IsTool(f[5], "C")

NestingScenarioResult(f, msgs) ==
    /\ Len(msgs) = 2
    /\ msgs[1].type = "step"
    /\ msgs[1].content.status = "completed"
    /\ msgs[1].content.tools = <<f[2].data, f[3].data>>
    /\ msgs[2] = [type |-> "tool", content |-> f[5].data]

(* C4.  Step nesting: a folded tool event whose tool_call_id differs from   *)
(* the tracked live tool's is appended to the tools of the most recent      *)
(* Step entry if and only if that Step is running, and otherwise appended   *)
(* as a top-level entry; folding step{running}, tool A, tool B,             *)
(* step{completed}, tool C leaves A and B nested under the Step and C       *)
(* top-level.                                                               *)
C4_StepNesting ==
    [][JustFolded =>
         /\ (FoldedEvent.event = "tool" /\ NotLiveTool(state, FoldedEvent.data)) =>
               LET k == MostRecentStep(state.messages)
               IN IF k # 0 /\ state.messages[k].content.status = "running"
                  THEN state'.messages =
                          [state.messages EXCEPT ![k].content.tools =
                                                    Append(@, FoldedEvent.data)]
                  ELSE state'.messages =
                          Append(state.messages,
                                 [type |-> "tool", content |-> FoldedEvent.data])
         /\ IsNestingScenario(folded') => NestingScenarioResult(folded', state'.messages)
      ]_vars

C4_Witness ==
    /\ IsNestingScenario(folded)
    /\ NestingScenarioResult(folded, state.messages)

\* message{role: user, 'hi'} then error{'boom'}
IsErrorScenario(f) ==
    /\ Len(f) = 2
    /\ f[1].event = "message" /\ f[1].data.role = "user" /\ f[1].data.content = Hi
    /\ f[1].data.attachments = <<>>
    /\ f[2].event = "error" /\ f[2].data.error = Boom

ErrorScenarioResult(s) ==
    /\ Len(s.messages) = 2
    /\ s.messages[1].type = "user" /\ s.messages[1].content.content = Hi
    /\ s.messages[2].type = "assistant" /\ s.messages[2].content.content = Boom
    /\ ~s.isLoading

(* C6.  Remote agent failure: folding an error event appends exactly one    *)
(* entry of type assistant at the end of the transcript, with the event's   *)
(* error text as content and the event's timestamp, leaves the earlier      *)
(* entries unchanged and sets the loading indicator to false;               *)
(* message{user, 'hi'} then error{'boom'} yields [UserMessage('hi'),        *)
(* AssistantMessage('boom')] with loading false.                            *)
C6_ErrorEvent ==
    [][JustFolded =>
         /\ FoldedEvent.event = "error" =>
               /\ state'.messages =
                     Append(state.messages,
                            [type |-> "assistant",
                             content |-> [content |-> FoldedEvent.data.error,
                                          timestamp |-> FoldedEvent.data.timestamp]])
               /\ ~state'.isLoading
         /\ IsErrorScenario(folded') => ErrorScenarioResult(state')
      ]_vars

C6_Witness ==
    /\ IsErrorScenario(folded)
    /\ ErrorScenarioResult(state)
    /\ last = "onMessage"

\* a step in which chat issued the open of a channel: the channel
ChatIssued == Len(channels') = Len(channels) + 1
IssuedRequest == channels'[Len(channels')].request

\* the entries a step appended to the transcript
Appended ==
    SubSeq(state'.messages, Len(state.messages) + 1, Len(state'.messages))

\* channels whose open has been issued and that have not been cancelled,
\* closed or failed
LiveChannels == {c \in DOMAIN channels : channels[c].status \in LiveStatus}

(* C2.  Single-active-channel invariant: in every reachable state at most  *)
(* one Event Channel opened by the controller is live (open issued, and    *)
(* not yet cancelled, closed or errored).                                  *)
C2_SingleActiveChannel == Cardinality(LiveChannels) <= 1

\* the per-session fields as createInitialState leaves them
InitialPerSession(s) ==
    /\ s.messages = <<>>
    /\ s.plan = <<>>
    /\ s.title = "New Chat"
    /\ s.lastEventId = 0
    /\ s.lastTool = <<>>
    /\ s.lastNoMessageTool = NoRef
    /\ s.realTime

\* a step in which the getSession request f resolved
Restored(f) == fetches[f].status = "pending" /\ fetches'[f].status = "resolved"

(* C5.  Replay suppression: restoreSession, started from the initial        *)
(* per-session state, leaves the transcript, plan, title and lastEventId    *)
(* that folding the same events one by one through the live onMessage path  *)
(* leaves, issues no showToolPanel notification, and leaves real-time mode  *)
(* on.                                                                      *)
C5_ReplaySuppression ==
    [][\A f \in DOMAIN fetches :
          (Restored(f) /\ InitialPerSession(state)) =>
              LET events == SubSeq(folded', Len(folded) + 1, Len(folded'))
                  live == FoldEvents([s |-> state, p |-> toolPanel], events)
              IN /\ state'.messages = live.s.messages
                 /\ state'.plan = live.s.plan
                 /\ state'.title = live.s.title
                 /\ state'.lastEventId = live.s.lastEventId
                 /\ toolPanel' = toolPanel
                 /\ state'.realTime
      ]_vars

C5_Witness ==
    /\ last = "restoreFetched"
    /\ Len(folded) = 3
    /\ Len(state.messages) = 2
    /\ \E i \in DOMAIN folded : folded[i].event = "tool" /\ folded[i].data.name = "bash"
    /\ \E i \in DOMAIN folded : folded[i].event = "title"
    /\ state.lastNoMessageTool.kind = "ref"
    /\ state.title = "t1"
    /\ toolPanel.calls = 0
    /\ state.realTime

\* text has a character that is not white space
NonBlank(text) == \E i \in DOMAIN text : text[i] # Space

IsUserEntry(m, text) == m.type = "user" /\ m.content.content = text
IsAttachmentEntry(m, ids) ==
    m.type = "attachments" /\ FileIds(m.content.attachments) = ids

\* the entries chat appends: a UserMessage iff withUser, then an
\* AttachmentSet iff withFiles
OptimisticAppend(new, withUser, withFiles, text, ids) ==
    /\ Len(new) = (IF withUser THEN 1 ELSE 0) + (IF withFiles THEN 1 ELSE 0)
    /\ withUser => IsUserEntry(new[1], text)
    /\ withFiles => IsAttachmentEntry(new[Len(new)], ids)

(* C7, as stated.  When chat(text, attachments) runs with a session id     *)
(* set, a UserMessage entry carrying text is appended exactly when text is *)
(* non-empty, an AttachmentSet entry is appended after it exactly when     *)
(* text is non-empty and attachments are present, FollowMode is set to     *)
(* true and the loading indicator is set to true.                          *)
C7_AsStated ==
    [][ChatIssued =>
          LET text == IssuedRequest.body.message
              ids == IssuedRequest.body.attachments
          IN /\ OptimisticAppend(Appended, text # <<>>, text # <<>> /\ ids # <<>>,
                                 text, ids)
             /\ state'.follow
             /\ state'.isLoading
      ]_vars

(* C7, amended.  When chat(text, attachments) runs with a session id set,  *)
(* a UserMessage entry carrying text is appended exactly when text has a   *)
(* character that is not white space, an AttachmentSet entry is appended   *)
(* after it exactly when attachments are present, whatever the text,       *)
(* FollowMode is set to true and the loading indicator is set to true.     *)
C7_OptimisticAppend ==
    [][ChatIssued =>
          LET text == IssuedRequest.body.message
              ids == IssuedRequest.body.attachments
          IN /\ OptimisticAppend(Appended, NonBlank(text), ids # <<>>, text, ids)
             /\ state'.follow
             /\ state'.isLoading
      ]_vars

C7_Witness ==
    /\ last = "handleSubmit"
    /\ Len(channels) = 2
    /\ channels[2].request.body.message = <<Space, "h">>
    /\ channels[2].request.body.attachments = <<"f1">>
    /\ Len(state.messages) >= 3
    /\ IsUserEntry(state.messages[Len(state.messages) - 1], <<Space, "h">>)
    /\ IsAttachmentEntry(state.messages[Len(state.messages)], <<"f1">>)
    /\ state.follow /\ state.isLoading

(* C8.  Resume cursor on open: every channel open issued by chat carries   *)
(* as event_id the event_id of the last event folded into the transcript   *)
(* at the moment of the call, or none if no event has been folded since    *)
(* the per-session state was last reset; the re-attach open of             *)
(* restoreSession carries the id of the last replayed event.               *)
C8_CursorOnOpen ==
    [][ChatIssued =>
          IssuedRequest.body.event_id =
              IF folded' = <<>> THEN 0 ELSE folded'[Len(folded')].data.event_id
      ]_vars

C8_Witness ==
    /\ last = "restoreFetched"
    /\ Len(folded) = 2
    /\ channels # <<>>
    /\ channels[Len(channels)].status = "opening"
    /\ channels[Len(channels)].request.body.event_id = folded[2].data.event_id

(* C9.  Missing session id: with no session id set, handleSubmit (chat)    *)
(* and handleStop change no controller state, open no channel, send no     *)
(* stop request and surface no error.                                      *)
C9_NoSessionNoOp ==
    [][(last' \in {"handleSubmit", "handleStop"} /\ state.sessionId = NoSession) =>
          UNCHANGED <<state, toolPanel, channels, fetches, effects, folded>>
      ]_vars

C9_Witness ==
    /\ last = "handleSubmit"
    /\ state.sessionId = NoSession
    /\ state.inputMessage = Hi
    /\ state.attachments = <<File1>>
    /\ channels = <<>>
    /\ effects = NoEffects

\* a step in which channel c closed, failed, or its open was rejected
Ended(c) ==
    /\ channels[c].status \in LiveStatus
    /\ channels'[c].status \in {"closed", "errored", "rejected"}

(* C10.  Channel close and transport failure: when a channel's onClose or  *)
(* onError fires, or its open rejects, the loading indicator becomes false *)
(* and cancelCurrentChat becomes null, the transcript, plan, title and     *)
(* lastEventId are left unchanged, and no channel is opened.               *)
C10_CloseAndFailure ==
    [][\A c \in DOMAIN channels :
          Ended(c) =>
              /\ ~state'.isLoading
              /\ state'.cancelCurrentChat = 0
              /\ state'.messages = state.messages
              /\ state'.plan = state.plan
              /\ state'.title = state.title
              /\ state'.lastEventId = state.lastEventId
              /\ Len(channels') = Len(channels)
              /\ \A d \in DOMAIN channels : d # c => channels'[d] = channels[d]
      ]_vars

C10_Witness ==
    /\ last = "onClose"
    /\ \E c \in DOMAIN channels : channels[c].status = "closed"
    /\ folded # <<>>
    /\ Len(state.messages) >= 2
    /\ state.lastEventId # 0
    /\ ~state.isLoading
    /\ state.cancelCurrentChat = 0

\* a step in which channel c failed or its open was rejected
TransportFailed(c) ==
    /\ channels[c].status \in LiveStatus
    /\ channels'[c].status \in {"errored", "rejected"}

\* a step in which the getSession request f failed
FetchRejected(f) == fetches[f].status = "pending" /\ fetches'[f].status = "rejected"

(* C11.  Failures are surfaced to the user: every transport error on the    *)
(* channel (onError, or a rejected open) and every failure of the           *)
(* getSession fetch of restoreSession results in one showErrorToast         *)
(* notification.                                                            *)
C11_FailuresSurfaced ==
    [][((\E c \in DOMAIN channels : TransportFailed(c))
        \/ (\E f \in DOMAIN fetches : FetchRejected(f)))
          => effects'.toasts = effects.toasts + 1
      ]_vars

(* C12.  stop(): with a session id set, handleStop issues exactly one stop  *)
(* request to the remote agent and leaves all local state unchanged: the    *)
(* channel handle and the channels, the loading indicator, the transcript   *)
(* and the cursor.                                                          *)
C12_StopFrame ==
    [][(last' = "handleStop" /\ state.sessionId # NoSession) =>
          /\ effects' = [effects EXCEPT !.stops = @ + 1]
          /\ UNCHANGED <<state, toolPanel, channels, fetches, scroll, folded>>
      ]_vars

C12_Witness ==
    /\ last = "handleStop"
    /\ effects.stops = 1
    /\ state.sessionId = "A"
    /\ state.isLoading
    /\ state.cancelCurrentChat # 0
    /\ channels[state.cancelCurrentChat].status = "open"
    /\ folded # <<>>
    /\ state.lastEventId # 0

\* the per-session fields, the loading indicator, FollowMode and the channel
\* handle as createInitialState leaves them
ResetPerSession(s) ==
    /\ InitialPerSession(s)
    /\ ~s.isLoading
    /\ s.follow
    /\ s.cancelCurrentChat = 0

(* C13.  Navigation reset: when the route switches to a different session   *)
(* id, the navigation handler cancels the stored channel handle if there is *)
(* one, resets every per-session field to its initial value, sets sessionId *)
(* to the new id and starts restoreSession for the new id: one getSession   *)
(* request for it, issued on the reset state.                               *)
C13_NavigationReset ==
    [][last' = "onBeforeRouteUpdate" =>
          /\ state.cancelCurrentChat # 0 =>
                 channels'[state.cancelCurrentChat].status \notin LiveStatus
          /\ ResetPerSession(state')
          /\ state'.sessionId # state.sessionId
          /\ state'.sessionId # NoSession =>
                 /\ fetches' = Append(fetches, [sid |-> state'.sessionId,
                                                status |-> "pending", session |-> "",
                                                channel |-> 0])
                 /\ effects' = effects
          /\ Len(channels') = Len(channels)
      ]_vars

C13_Witness ==
    /\ last = "onBeforeRouteUpdate"
    /\ state.sessionId = "B"
    /\ ResetPerSession(state)
    /\ \E c \in DOMAIN channels : channels[c].status = "cancelled"
    /\ Len(fetches) = 2
    /\ fetches[1].sid = "A"
    /\ fetches[2] = [sid |-> "B", status |-> "pending", session |-> "", channel |-> 0]
    /\ folded = <<>>
    /\ served > 0

(* C14.  Teardown: once onUnmounted has run, no Event Channel whose open    *)
(* was issued before the teardown is live: each has been cancelled or has   *)
(* closed.  In the state that onUnmounted leaves, every channel was issued  *)
(* before the teardown.                                                     *)
C14_Teardown == last = "onUnmounted" => LiveChannels = {}

(* C15.  FollowMode: a transcript mutation is observed by watch(messages),  *)
(* whose callback scrolls to the bottom if and only if FollowMode is true   *)
(* when it runs; a scroll event that leaves the view away from the bottom   *)
(* sets FollowMode false, and then nothing scrolls to the bottom but        *)
(* handleFollow, which sets FollowMode true and scrolls once; chat sets     *)
(* FollowMode true.                                                         *)
C15_FollowMode ==
    [][/\ state'.messages # state.messages => scroll'.pending
       /\ last' = "watchMessages" =>
              scroll'.scrolls = scroll.scrolls + (IF state.follow THEN 1 ELSE 0)
       /\ (last' = "handleScroll" /\ ~scroll'.atBottom) => ~state'.follow
       /\ scroll'.scrolls # scroll.scrolls =>
              \/ last' = "watchMessages" /\ state.follow
              \/ last' = "handleFollow"
       /\ last' = "handleFollow" =>
              state'.follow /\ scroll'.scrolls = scroll.scrolls + 1
       /\ ChatIssued => state'.follow
      ]_vars

\* the transcript grew and was scrolled, the user scrolled away, it grew
\* again and was not scrolled, and 'jump to latest' scrolled once
C15_Witness ==
    /\ last = "handleFollow"
    /\ steps = 7
    /\ Len(state.messages) = 2
    /\ ~scroll.pending
    /\ scroll.scrolls = 2
    /\ state.follow

\* a step in which handleToolClick or jumpToRealTime called showToolPanel
InspectorFocused ==
    /\ last' \in {"handleToolClick", "jumpToRealTime"}
    /\ toolPanel'.calls = toolPanel.calls + 1

\* the tool's timestamp, in epoch seconds, lies within the last 5 minutes
WithinFiveMinutes(tool) == tool.timestamp > (now \div 1000) - 5 * 60

(* C16.  Inspector live flag: the live flag that handleToolClick and        *)
(* jumpToRealTime pass to the inspector for a tool is true if and only if   *)
(* the tool's status is calling, or the tool's tool_call_id is              *)
(* lastNoMessageTool's and the tool's timestamp, in epoch seconds, lies     *)
(* within the last 5 minutes of the current time.                           *)
C16_LiveFlag ==
    [][InspectorFocused =>
          (toolPanel'.live <=>
              \/ toolPanel'.tool.status = "calling"
              \/ /\ isLastNoMessageTool(state', toolPanel'.tool)
                 /\ WithinFiveMinutes(toolPanel'.tool))
      ]_vars

\* tools list new extends tools list old, tool by tool
ToolsKept(old, new) ==
    /\ Len(new) >= Len(old)
    /\ \A j \in DOMAIN old : new[j].tool_call_id = old[j].tool_call_id

\* entry new is entry old, up to the field updates of a ToolCall and the
\* status and tools-list updates of a Step
EntryKept(old, new) ==
    /\ new.type = old.type
    /\ IF old.type = "tool"
       THEN new.content.tool_call_id = old.content.tool_call_id
       ELSE IF old.type = "step"
       THEN /\ new.content.id = old.content.id
            /\ new.content.description = old.content.description
            /\ new.content.event_id = old.content.event_id
            /\ ToolsKept(old.content.tools, new.content.tools)
       ELSE new = old

(* C17.  Append-only transcript: within one session every step of           *)
(* handleEvent and of chat, the cancellation of the channel in flight       *)
(* included, keeps the previous top-level transcript as a prefix of the new *)
(* one by position and entry type: the length never decreases and the only  *)
(* changes to existing entries are field updates of a ToolCall and status   *)
(* and tools-list updates of a Step.                                        *)
C17_AppendOnly ==
    [][/\ Len(state'.messages) >= Len(state.messages)
       /\ \A i \in DOMAIN state.messages :
              EntryKept(state.messages[i], state'.messages[i])
      ]_vars

C17_Witness ==
    /\ last = "handleSubmit"
    /\ channels[1].status = "cancelled"
    /\ Len(state.messages) = 3
    /\ state.messages[1].type = "step"
    /\ state.messages[1].content.status = "completed"
    /\ Len(state.messages[1].content.tools) = 1
    /\ state.messages[1].content.tools[1].status = "called"
    /\ IsUserEntry(state.messages[2], Hi)
    /\ state.messages[3].type = "attachments"

\* position of the last folded step event, 0 when none was folded
LastStepEvent(f) ==
    LET stepEvents == {i \in DOMAIN f : f[i].event = "step"}
    IN IF stepEvents = {} THEN 0 ELSE Greatest(stepEvents)

\* the last folded step event closed its step
StepClosed(f) ==
    /\ LastStepEvent(f) # 0
    /\ f[LastStepEvent(f)].data.status \in {"completed", "failed"}

(* C18.  Failed step closes nesting: a Step leaves RUNNING on a step event  *)
(* with status completed or failed; a tool event with a new tool_call_id    *)
(* folded after such an event, before any new step{running} event, is      *)
(* appended as a top-level transcript entry and is not nested under the     *)
(* closed step.                                                             *)
C18_FailedStepClosesNesting ==
    [][(/\ JustFolded
        /\ FoldedEvent.event = "tool"
        /\ FoldedToolEvents(FoldedEvent.data.tool_call_id) = {}
        /\ StepClosed(folded))
          => state'.messages =
                Append(state.messages, [type |-> "tool", content |-> FoldedEvent.data])
      ]_vars

\* the transcript holds a Step entry with this id in status running
HasOpenStep(msgs, id) ==
    \E i \in DOMAIN msgs : /\ msgs[i].type = "step"
                            /\ msgs[i].content.id = id
                            /\ msgs[i].content.status = "running"

(* C19.  Out-of-order step completion is a no-op: folding a step{completed} *)
(* event while the transcript holds no Step entry with the event's id in    *)
(* status running leaves every transcript entry unchanged, the status of    *)
(* every Step entry included; only the resume cursor advances.              *)
C19_UnmatchedCompletion ==
    [][(/\ JustFolded
        /\ IsStep(FoldedEvent, "completed")
        /\ ~HasOpenStep(state.messages, FoldedEvent.data.id))
          => /\ state'.messages = state.messages
             /\ state' = [state EXCEPT !.lastEventId = FoldedEvent.data.event_id]
      ]_vars

\* a step that folds a tool event with this property of its name
FoldedTool(named) ==
    /\ JustFolded
    /\ FoldedEvent.event = "tool"
    /\ named = (FoldedEvent.data.name = "message")

(* C20.  Inspector pinning: handleToolClick turns real-time mode off and    *)
(* focuses the inspector; while real-time mode is off, folding a tool event *)
(* issues no inspector notification and leaves the pinned focus, while      *)
(* lastNoMessageTool follows each folded tool event whose name is not       *)
(* 'message'; a tool event named 'message' never changes lastNoMessageTool  *)
(* and never notifies the inspector; jumpToRealTime turns real-time mode on *)
(* and refocuses the inspector on lastNoMessageTool, after which each       *)
(* folded tool event not named 'message' notifies the inspector as live.    *)
C20_InspectorPinning ==
    [][/\ last' = "handleToolClick" =>
              ~state'.realTime /\ toolPanel'.calls = toolPanel.calls + 1
       /\ (JustFolded /\ ~state.realTime) =>
              toolPanel' = toolPanel /\ ~state'.realTime
       /\ FoldedTool(FALSE) =>
              /\ state'.lastNoMessageTool.kind # "none"
              /\ Reflects(LastNoMessageToolValue(state'), FoldedEvent.data)
       /\ FoldedTool(TRUE) =>
              /\ toolPanel' = toolPanel
              /\ state'.lastNoMessageTool = state.lastNoMessageTool
              /\ LastNoMessageToolValue(state') = LastNoMessageToolValue(state)
       /\ last' = "jumpToRealTime" =>
              /\ state'.realTime
              /\ state.lastNoMessageTool.kind # "none" =>
                     /\ toolPanel'.calls = toolPanel.calls + 1
                     /\ toolPanel'.tool = LastNoMessageToolValue(state)
       /\ (FoldedTool(FALSE) /\ state.realTime) =>
              toolPanel' = [calls |-> toolPanel.calls + 1, tool |-> FoldedEvent.data,
                            live |-> TRUE]
      ]_vars

\* the inspector pinned to tool A while lastNoMessageTool moved on to tool C
C20_Witness ==
    /\ last = "onMessage"
    /\ ~state.realTime
    /\ toolPanel.calls = 2
    /\ toolPanel.tool.tool_call_id = "A"
    /\ LastNoMessageToolValue(state).tool_call_id = "C"
    /\ \E i \in DOMAIN folded : folded[i].data.name = "message"

(* C21.  Restore re-attach: restoreSession, run from the initial            *)
(* per-session state, opens a channel if and only if the fetched session    *)
(* status is RUNNING or PENDING; it does so after every historical event    *)
(* has been folded (the open carries the id of the last one), with an empty *)
(* message and no attachments, and appends no UserMessage or AttachmentSet  *)
(* entry; when the status is COMPLETED or FAILED no channel is opened and   *)
(* the loading indicator is false when restoreSession finishes.             *)
C21_RestoreReattach ==
    [][\A f \in DOMAIN fetches :
          (Restored(f) /\ InitialPerSession(state) /\ ~state.isLoading) =>
              LET events == SubSeq(folded', Len(folded) + 1, Len(folded'))
                  live == FoldEvents([s |-> state, p |-> toolPanel], events)
              IN /\ ChatIssued <=> fetches'[f].session \in {"running", "pending"}
                 /\ state'.messages = live.s.messages
                 /\ ChatIssued =>
                        /\ IssuedRequest.sid = fetches[f].sid
                        /\ IssuedRequest.body.message = <<>>
                        /\ IssuedRequest.body.attachments = <<>>
                        /\ IssuedRequest.body.event_id =
                               IF events = <<>> THEN 0
                               ELSE events[Len(events)].data.event_id
                 /\ ~ChatIssued =>
                        /\ channels' = channels
                        /\ ~state'.isLoading
                        /\ effects'.cleared = effects.cleared + 1
      ]_vars

C21_Witness ==
    /\ last = "restoreFetched"
    /\ fetches[1].session = "pending"
    /\ Len(folded) = 3
    /\ Len(state.messages) = 2
    /\ Len(channels) = 1
    /\ channels[1].status = "opening"
    /\ channels[1].request.body.message = <<>>
    /\ channels[1].request.body.event_id = folded[3].data.event_id
    /\ state.isLoading

(* C22.  Session isolation across navigation: when the route has switched  *)
(* to another session while the historical fetch of the session left       *)
(* behind was still pending, the events that fetch returns are not folded: *)
(* its resolution leaves the transcript and the fold cursor as they are,   *)
(* so the transcript holds only entries of the session shown.              *)
C22_SessionIsolation ==
    [][\A f \in DOMAIN fetches :
          (/\ Restored(f)
           /\ state.sessionId # NoSession
           /\ fetches[f].sid # state.sessionId) =>
              /\ folded' = folded
              /\ state'.messages = state.messages
              /\ state'.lastEventId = state.lastEventId
      ]_vars

(* C23.  Events without transcript effect: folding a done, wait, title or  *)
(* plan event leaves the transcript entries, lastTool, lastNoMessageTool   *)
(* and the loading indicator unchanged; a plan event replaces the plan     *)
(* snapshot by the event's payload, nothing of the prior snapshot          *)
(* surviving, and a title event replaces the display title.                *)
C23_NoTranscriptEffect ==
    [][(JustFolded /\ FoldedEvent.event \in {"done", "wait", "title", "plan"}) =>
          /\ state'.messages = state.messages
          /\ state'.lastTool = state.lastTool
          /\ state'.lastNoMessageTool = state.lastNoMessageTool
          /\ state'.isLoading = state.isLoading
          /\ FoldedEvent.event = "plan" => state'.plan = <<FoldedEvent.data>>
          /\ FoldedEvent.event # "plan" => state'.plan = state.plan
          /\ FoldedEvent.event = "title" => state'.title = FoldedEvent.data.title
          /\ FoldedEvent.event # "title" => state'.title = state.title
      ]_vars

C23_Witness ==
    /\ last = "onMessage"
    /\ Len(folded) = 3
    /\ folded[2].event = "plan"
    /\ folded[2].data.steps # <<>>
    /\ folded[3].event = "plan"
    /\ folded[3].data.steps = <<>>
    /\ state.plan = <<folded[3].data>>
    /\ Len(state.messages) = 1
    /\ state.isLoading

====
